---- MODULE Spec2Model ----
(***************************************************************************)
(* Two browser peers running src/App.tsx (WebRTC tic-tac-toe).  Peer p1 is *)
(* the one that presses "Create Offer", peer p2 the one that presses       *)
(* "Accept Offer".  Every React state variable and ref of App is a         *)
(* function from the peer to its value; the data channels created by p1    *)
(* are numbered 1, 2, ... in creation order.  Board cells keep the source  *)
(* indices 0..8.  One action is one event handler together with the        *)
(* re-render and the board effect (useEffect([board])) that follow it.     *)
(***************************************************************************)
EXTENDS Integers, Sequences, FiniteSets, TLC

VARIABLES
    board,              \* useState board, per peer
    currentPlayer,      \* useState currentPlayer, per peer
    isMyTurn,           \* useState isMyTurn, per peer
    gameResult,         \* useState gameResult, per peer
    scores,             \* useState scores, per peer
    isChannelReady,     \* useState isChannelReady, per peer
    connectionError,    \* useState connectionError, per peer
    connectionStatus,   \* useState connectionStatus, per peer
    peerConnectionRef,  \* identity of the RTCPeerConnection of each peer
    dataChannelRef,     \* channel number held by the ref, 0 for null
    localDesc,          \* pc.localDescription type, per peer
    remoteDesc,         \* pc.remoteDescription type, per peer
    readyState,         \* readyState[c][p]: state of channel c at peer p
    handlerPlayer,      \* handlerPlayer[c][p]: currentPlayer captured by the handlers
    openFired,          \* openFired[c][p]: the open event was dispatched at p
    inFlight,           \* inFlight[c][p]: messages sent to p on c, not yet dispatched
    checkInterval,      \* the timer of the channel monitor effect is running, per peer
    numChannels,        \* number of createDataChannel calls so far
    numResets,          \* number of resetGame calls so far
    numDrops,           \* number of channel shutdowns by the transport so far
    numPastes,          \* number of acceptOffer and handleAnswer calls so far
    numMoves,           \* number of accepted makeMove calls so far
    explore,            \* which part of the behaviours this run explores
    evalBoard,          \* argument of the checkWinner harness
    evalOut,            \* value returned to the checkWinner harness
    pastedText          \* the text last typed into a prompt, kept by the paste harness

vars == <<board, currentPlayer, isMyTurn, gameResult, scores, isChannelReady,
          connectionError, connectionStatus, peerConnectionRef, dataChannelRef,
          localDesc, remoteDesc, readyState, handlerPlayer, openFired, inFlight, checkInterval,
          numChannels, numResets, numDrops, numPastes, numMoves, explore, evalBoard, evalOut,
          pastedText>>

gameVars == <<board, currentPlayer, isMyTurn, gameResult, scores>>
uiVars == <<isChannelReady, connectionError, connectionStatus>>
pcVars == <<peerConnectionRef, localDesc, remoteDesc>>
chanVars == <<dataChannelRef, readyState, handlerPlayer, openFired, inFlight, numChannels>>
evalVars == <<evalBoard, evalOut, pastedText>>
countVars == <<numResets, numDrops, numPastes, numMoves, explore>>

----------------------------------------------------------------------------
(* Bounds of the exploration *)

(* A run explores either the play of the game over a channel that stays up *)
(* ("play": all of the negotiation succeeds, cells 0..MaxCell are clicked,  *)
(* MaxResets resets) or the life cycle of the connection ("lifecycle":     *)
(* failing pastes, transport shutdowns and retries, with cells             *)
(* 0..MaxLifeCell clicked and MaxLifeMoves moves made).                    *)

MaxCell == 5        \* play: cell buttons 0..MaxCell are the ones clicked
MaxResets == 1      \* play: resetGame calls
MaxMoves == 10      \* play: accepted makeMove calls
MaxLifeMoves == 3   \* lifecycle: accepted makeMove calls
MaxLifeCell == 1    \* lifecycle: cell buttons 0..MaxLifeCell are the ones clicked
MaxChannels == 2    \* lifecycle: createDataChannel calls
MaxDrops == 1       \* lifecycle: transport shutdowns of a channel
MaxPastes == 3      \* lifecycle: pasted texts
MaxTextLen == 2     \* tokens in a pasted text

----------------------------------------------------------------------------
(* Values *)

p1 == "p1"
p2 == "p2"
Peers == {p1, p2}
Other(p) == IF p = p1 THEN p2 ELSE p1

NULL == "null"
Cells == 0..8
Marks == {"X", "O"}
EmptyBoard == [i \in Cells |-> ""]
Channels == 1..MaxChannels

NoScores == [X |-> 0, O |-> 0, draws |-> 0]
InitialPlayer == "X"

winPatterns ==
    << <<0, 1, 2>>, <<3, 4, 5>>, <<6, 7, 8>>,
       <<0, 3, 6>>, <<1, 4, 7>>, <<2, 5, 8>>,
       <<0, 4, 8>>, <<2, 4, 6>> >>

----------------------------------------------------------------------------
(* checkWinner: the first pattern, in list order, held by one mark decides *)

RECURSIVE checkWinnerFrom(_, _)
checkWinnerFrom(boardState, k) ==
    IF k > Len(winPatterns)
    THEN IF \A i \in Cells : boardState[i] # "" THEN "draw" ELSE NULL
    ELSE LET a == winPatterns[k][1]
             b == winPatterns[k][2]
             c == winPatterns[k][3]
         IN  IF boardState[a] # "" /\ boardState[a] = boardState[b]
                                   /\ boardState[a] = boardState[c]
             THEN boardState[a]
             ELSE checkWinnerFrom(boardState, k + 1)

(* variant: the draw test comes before the patterns *)
checkWinner_DrawFirst(boardState) ==
    IF \A i \in Cells : boardState[i] # "" THEN "draw" ELSE checkWinnerFrom(boardState, 1)

checkWinner(boardState) == checkWinnerFrom(boardState, 1)

(* useEffect([board]): what the effect leaves in gameResult and scores *)
effectResult(b, prev) ==
    LET result == checkWinner(b)
    IN  IF result = NULL THEN prev
        ELSE IF result = "draw" THEN "Game ended in a draw!"
        ELSE IF result = "X" THEN "Player X wins!" ELSE "Player O wins!"

effectScores(b, prev) ==
    LET result == checkWinner(b)
    IN  IF result = NULL THEN prev
        ELSE IF result = "draw" THEN [prev EXCEPT !.draws = @ + 1]
        ELSE [prev EXCEPT ![result] = @ + 1]

----------------------------------------------------------------------------
(* Pasted negotiation texts, as sequences of tokens *)

JsonTokens == {"{offer}", "{answer}"}
Tokens == {"Offer:", "Answer:"} \cup JsonTokens

RECURSIVE SeqsUpTo(_)
SeqsUpTo(n) ==
    IF n = 0 THEN {<<>>}
    ELSE LET shorter == SeqsUpTo(n - 1)
         IN  shorter \cup {Append(s, t) : s \in {x \in shorter : Len(x) = n - 1}, t \in Tokens}

Texts == SeqsUpTo(MaxTextLen) \ {<<>>}

includes(text, label) == \E i \in 1..Len(text) : text[i] = label

(* String.indexOf("{"): position of the first token that opens a brace, -1 if none *)
indexOfBrace(text) ==
    IF \E i \in 1..Len(text) : text[i] \in JsonTokens
    THEN CHOOSE i \in 1..Len(text) :
            /\ text[i] \in JsonTokens
            /\ \A j \in 1..(i - 1) : text[j] \notin JsonTokens
    ELSE -1

(* String.substring(start): a negative start counts as 0 *)
substring(text, start) ==
    IF start <= 1 THEN text ELSE SubSeq(text, start, Len(text))

(* variant: the text is parsed as typed *)
cleanText_NoStrip(text, label) == text

(* text.includes(label) ? text.substring(text.indexOf("{")) : text *)
cleanText(text, label) ==
    IF includes(text, label) THEN substring(text, indexOfBrace(text)) ELSE text

(* JSON.parse: exactly one JSON value, nothing before or after it *)
parses(text) == Len(text) = 1 /\ text[1] \in JsonTokens
parsed(text) == text[1]

----------------------------------------------------------------------------
(* Initial state: the first render of App on both peers *)

InitApp ==
    /\ board = [p \in Peers |-> EmptyBoard]
    /\ currentPlayer = [p \in Peers |-> InitialPlayer]
    /\ isMyTurn = [p \in Peers |-> FALSE]
    /\ gameResult = [p \in Peers |-> NULL]
    /\ scores = [p \in Peers |-> NoScores]
    /\ isChannelReady = [p \in Peers |-> FALSE]
    /\ connectionError = [p \in Peers |-> NULL]
    /\ connectionStatus = [p \in Peers |-> "Not Connected"]
    /\ peerConnectionRef = [p \in Peers |-> 1]
    /\ dataChannelRef = [p \in Peers |-> 0]
    /\ localDesc = [p \in Peers |-> "none"]
    /\ remoteDesc = [p \in Peers |-> "none"]
    /\ readyState = [c \in Channels |-> [p \in Peers |-> "none"]]
    /\ handlerPlayer = [c \in Channels |-> [p \in Peers |-> "none"]]
    /\ openFired = [c \in Channels |-> [p \in Peers |-> FALSE]]
    /\ inFlight = [c \in Channels |-> [p \in Peers |-> <<>>]]
    /\ checkInterval = [p \in Peers |-> FALSE]
    /\ numChannels = 0
    /\ numResets = 0
    /\ numDrops = 0
    /\ numPastes = 0
    /\ numMoves = 0

Init ==
    /\ InitApp
    /\ explore \in {"play", "lifecycle"}
    /\ evalBoard = EmptyBoard
    /\ evalOut = NULL
    /\ pastedText = <<>>

(* What the explored part allows *)
ClickCells == {i \in Cells : i <= (IF explore = "play" THEN MaxCell ELSE MaxLifeCell)}
ResetsLeft == numResets < (IF explore = "play" THEN MaxResets ELSE 0)
ChannelsLeft == numChannels < (IF explore = "play" THEN 1 ELSE MaxChannels)
DropsLeft == numDrops < (IF explore = "play" THEN 0 ELSE MaxDrops)
MovesLeft == numMoves < (IF explore = "play" THEN MaxMoves ELSE MaxLifeMoves)
PastesLeft == numPastes < (IF explore = "play" THEN 2 ELSE MaxPastes)

(* The monitor effect is followed where the channels come and go; over a    *)
(* channel that stays open its tick only repeats what onopen has set        *)
MonitorExplored == explore = "lifecycle"

(* A description text exists once the peer that logs it has created it *)
TextExists(text) ==
    /\ includes(text, "{offer}") => localDesc[p1] = "offer"
    /\ includes(text, "{answer}") => localDesc[p2] = "answer"

(* The texts tried as pasted input *)
PastedTexts == IF PastesLeft THEN Texts ELSE {}

(* The transport carries data once p1 has applied p2's answer *)
Connected == remoteDesc[p1] = "answer"

----------------------------------------------------------------------------
(* Negotiation *)

(* createOffer, pressed once by p1; the handlers of the new channel capture *)
(* the currentPlayer of the render the button belongs to                    *)
CreateOffer(p) ==
    /\ p = p1
    /\ localDesc[p] = "none"
    /\ ChannelsLeft
    /\ LET c == numChannels + 1 IN
        /\ numChannels' = c
        /\ dataChannelRef' = [dataChannelRef EXCEPT ![p] = c]
        /\ readyState' = [readyState EXCEPT ![c][p] = "connecting"]
        /\ handlerPlayer' = [handlerPlayer EXCEPT ![c][p] = currentPlayer[p]]
    /\ checkInterval' = [checkInterval EXCEPT ![p] = MonitorExplored]
    /\ localDesc' = [localDesc EXCEPT ![p] = "offer"]
    /\ connectionError' = [connectionError EXCEPT ![p] = NULL]
    /\ connectionStatus' = [connectionStatus EXCEPT ![p] = "Created Offer - Copy it to other peer"]
    /\ currentPlayer' = [currentPlayer EXCEPT ![p] = "X"]
    /\ isMyTurn' = [isMyTurn EXCEPT ![p] = TRUE]
    /\ scores' = [scores EXCEPT ![p] = NoScores]
    /\ UNCHANGED <<board, gameResult, isChannelReady, peerConnectionRef, remoteDesc,
                   openFired, inFlight, countVars, evalVars>>

(* setRemoteDescription(offer) of acceptOffer is accepted by a fresh connection *)
offerAccepted(p, text) ==
    /\ parses(cleanText(text, "Offer:"))
    /\ parsed(cleanText(text, "Offer:")) = "{offer}"
    /\ remoteDesc[p] = "none"
    /\ localDesc[p] = "none"

(* variant: the identity and the turn flag are set before the text is parsed *)
AcceptOffer_IdentityFirst(p, text) ==
    /\ p = p2
    /\ PastesLeft
    /\ TextExists(text)
    /\ numPastes' = numPastes + 1
    /\ currentPlayer' = [currentPlayer EXCEPT ![p] = "O"]
    /\ isMyTurn' = [isMyTurn EXCEPT ![p] = FALSE]
    /\ IF offerAccepted(p, text)
       THEN /\ remoteDesc' = [remoteDesc EXCEPT ![p] = "offer"]
            /\ localDesc' = [localDesc EXCEPT ![p] = "answer"]
            /\ connectionError' = [connectionError EXCEPT ![p] = NULL]
            /\ connectionStatus' = [connectionStatus EXCEPT ![p] = "Created Answer - Copy it to other peer"]
            /\ scores' = [scores EXCEPT ![p] = NoScores]
       ELSE /\ connectionError' = [connectionError EXCEPT ![p] = "Error accepting offer"]
            /\ UNCHANGED <<remoteDesc, localDesc, connectionStatus, scores>>
    /\ UNCHANGED <<board, gameResult, isChannelReady, peerConnectionRef, chanVars,
                   numResets, numDrops, numMoves, explore, evalBoard, evalOut,
                   checkInterval>>

(* acceptOffer(offerStr), pressed by p2 *)
AcceptOffer(p, text) ==
    /\ p = p2
    /\ PastesLeft
    /\ TextExists(text)
    /\ numPastes' = numPastes + 1
    /\ IF offerAccepted(p, text)
       THEN /\ remoteDesc' = [remoteDesc EXCEPT ![p] = "offer"]
            /\ localDesc' = [localDesc EXCEPT ![p] = "answer"]
            /\ connectionError' = [connectionError EXCEPT ![p] = NULL]
            /\ connectionStatus' = [connectionStatus EXCEPT ![p] = "Created Answer - Copy it to other peer"]
            /\ currentPlayer' = [currentPlayer EXCEPT ![p] = "O"]
            /\ isMyTurn' = [isMyTurn EXCEPT ![p] = FALSE]
            /\ scores' = [scores EXCEPT ![p] = NoScores]
       ELSE /\ connectionError' = [connectionError EXCEPT ![p] = "Error accepting offer"]
            /\ UNCHANGED <<remoteDesc, localDesc, connectionStatus, currentPlayer,
                           isMyTurn, scores>>
    /\ UNCHANGED <<board, gameResult, isChannelReady, peerConnectionRef, chanVars,
                   numResets, numDrops, numMoves, explore, evalBoard, evalOut,
                   checkInterval>>

(* setRemoteDescription(answer) of handleAnswer is accepted in have-local-offer *)
answerAccepted(p, text) ==
    /\ parses(cleanText(text, "Answer:"))
    /\ parsed(cleanText(text, "Answer:")) = "{answer}"
    /\ localDesc[p] = "offer"
    /\ remoteDesc[p] = "none"

(* handleAnswer(answerStr), pressed by p1 *)
HandleAnswer(p, text) ==
    /\ p = p1
    /\ PastesLeft
    /\ TextExists(text)
    /\ numPastes' = numPastes + 1
    /\ IF answerAccepted(p, text)
       THEN /\ remoteDesc' = [remoteDesc EXCEPT ![p] = "answer"]
            /\ connectionStatus' = [connectionStatus EXCEPT ![p] = "Connected! Waiting for data channel..."]
            /\ UNCHANGED connectionError
       ELSE /\ connectionError' = [connectionError EXCEPT ![p] = "Error handling answer"]
            /\ UNCHANGED <<remoteDesc, connectionStatus>>
    /\ UNCHANGED <<gameVars, isChannelReady, peerConnectionRef, localDesc, chanVars,
                   numResets, numDrops, numMoves, explore, evalBoard, evalOut,
                   checkInterval>>

----------------------------------------------------------------------------
(* Data channel events: the handlers of setupDataChannelHandlers *)

(* channel.onopen *)
onopen(p, c) ==
    /\ connectionStatus' = [connectionStatus EXCEPT ![p] = "Data Channel Connected!"]
    /\ isChannelReady' = [isChannelReady EXCEPT ![p] = TRUE]
    /\ isMyTurn' = [isMyTurn EXCEPT ![p] = IF handlerPlayer[c][p] = "X" THEN TRUE ELSE @]

(* The channel created by this peer opens once the transport is up *)
OpenLocal(p, c) ==
    /\ Connected
    /\ readyState[c][p] = "connecting"
    /\ readyState' = [readyState EXCEPT ![c][p] = "open"]
    /\ openFired' = [openFired EXCEPT ![c][p] = TRUE]
    /\ onopen(p, c)
    /\ UNCHANGED <<board, currentPlayer, gameResult, scores, connectionError, pcVars,
                   dataChannelRef, handlerPlayer, inFlight, numChannels,
                   countVars, evalVars,
                   checkInterval>>

(* pc.ondatachannel: the handler installed by the mount effect, whose        *)
(* setupDataChannelHandlers belongs to the first render (InitialPlayer)      *)
OnDataChannel(p, c) ==
    /\ p = p2
    /\ readyState[c][Other(p)] = "open"
    /\ readyState[c][p] = "none"
    /\ readyState' = [readyState EXCEPT ![c][p] = "open"]
    /\ dataChannelRef' = [dataChannelRef EXCEPT ![p] = c]
    /\ handlerPlayer' = [handlerPlayer EXCEPT ![c][p] = InitialPlayer]
    /\ checkInterval' = [checkInterval EXCEPT ![p] = MonitorExplored]
    /\ connectionStatus' = [connectionStatus EXCEPT ![p] = "Data Channel Connected!"]
    /\ isChannelReady' = [isChannelReady EXCEPT ![p] = TRUE]
    /\ UNCHANGED <<gameVars, connectionError, pcVars, openFired, inFlight, numChannels,
                   countVars, evalVars>>

(* The open event of a channel announced by ondatachannel *)
OpenRemote(p, c) ==
    /\ readyState[c][p] = "open"
    /\ ~openFired[c][p]
    /\ openFired' = [openFired EXCEPT ![c][p] = TRUE]
    /\ onopen(p, c)
    /\ UNCHANGED <<board, currentPlayer, gameResult, scores, connectionError, pcVars,
                   dataChannelRef, readyState, handlerPlayer, inFlight, numChannels,
                   countVars, evalVars,
                   checkInterval>>

(* variant: the received board only fills the cells that are empty locally *)
receivedBoard_Merge(p, message) ==
    [i \in Cells |-> IF board[p][i] # "" THEN board[p][i] ELSE message.board[i]]

(* setBoard(message.board): the board a received move leaves *)
receivedBoard(p, message) == message.board

(* variant: createDataChannel without the ordered option *)
ordered_Unordered(c) == FALSE

(* createDataChannel("gameChannel", {ordered: true}), in createOffer and in *)
(* retryConnection                                                          *)
ordered(c) == TRUE

(* The positions of the queue whose message the transport may hand over next *)
nextDelivered(c, p) == IF ordered(c) THEN {1} ELSE 1..Len(inFlight[c][p])

RemoveAt(s, k) == SubSeq(s, 1, k - 1) \o SubSeq(s, k + 1, Len(s))

(* channel.onmessage, followed by the board effect *)
OnMessage(p, c) ==
    /\ inFlight[c][p] # <<>>
    /\ openFired[c][p]
    /\ readyState[c][p] = "open"
    /\ \E k \in nextDelivered(c, p) :
        LET message == inFlight[c][p][k] IN
        /\ inFlight' = [inFlight EXCEPT ![c][p] = RemoveAt(@, k)]
        /\ IF message.type = "move"
           THEN /\ board' = [board EXCEPT ![p] = receivedBoard(p, message)]
                /\ isMyTurn' = [isMyTurn EXCEPT ![p] = TRUE]
                /\ gameResult' = [gameResult EXCEPT ![p] = effectResult(receivedBoard(p, message), @)]
                /\ scores' = [scores EXCEPT ![p] = effectScores(receivedBoard(p, message), @)]
           ELSE /\ board' = [board EXCEPT ![p] = EmptyBoard]
                /\ isMyTurn' = [isMyTurn EXCEPT ![p] = (handlerPlayer[c][p] = "X")]
                /\ gameResult' = [gameResult EXCEPT ![p] = effectResult(EmptyBoard, NULL)]
                /\ scores' = [scores EXCEPT ![p] = effectScores(EmptyBoard, @)]
    /\ UNCHANGED <<currentPlayer, uiVars, pcVars, dataChannelRef, readyState,
                   handlerPlayer, openFired, numChannels, countVars, evalVars,
                   checkInterval>>

(* variant: the close event also takes the turn away *)
OnClose_ClearsTurn(p, c) ==
    /\ readyState[c][p] = "closing"
    /\ readyState' = [readyState EXCEPT ![c][p] = "closed"]
    /\ connectionStatus' = [connectionStatus EXCEPT ![p] = "Data Channel Closed"]
    /\ isChannelReady' = [isChannelReady EXCEPT ![p] = FALSE]
    /\ isMyTurn' = [isMyTurn EXCEPT ![p] = FALSE]
    /\ UNCHANGED <<board, currentPlayer, gameResult, scores, connectionError, pcVars,
                   dataChannelRef, handlerPlayer, openFired, inFlight, numChannels,
                   countVars, evalVars,
                   checkInterval>>

(* channel.onclose *)
OnClose(p, c) ==
    /\ readyState[c][p] = "closing"
    /\ readyState' = [readyState EXCEPT ![c][p] = "closed"]
    /\ connectionStatus' = [connectionStatus EXCEPT ![p] = "Data Channel Closed"]
    /\ isChannelReady' = [isChannelReady EXCEPT ![p] = FALSE]
    /\ UNCHANGED <<gameVars, connectionError, pcVars, dataChannelRef, handlerPlayer,
                   openFired, inFlight, numChannels, countVars, evalVars,
                   checkInterval>>

(* The transport shuts an open channel down: both ends start closing and   *)
(* what was in flight is lost                                              *)
ChannelDrop(c) ==
    /\ DropsLeft
    /\ \E p \in Peers : readyState[c][p] = "open"
    /\ numDrops' = numDrops + 1
    /\ readyState' = [readyState EXCEPT ![c] =
            [p \in Peers |-> IF readyState[c][p] = "open" THEN "closing" ELSE readyState[c][p]]]
    /\ inFlight' = [inFlight EXCEPT ![c] = [p \in Peers |-> <<>>]]
    /\ UNCHANGED <<gameVars, uiVars, pcVars, dataChannelRef, handlerPlayer, openFired,
                   numChannels, numResets, numPastes, numMoves, explore, evalVars,
                   checkInterval>>

(* A tick of the interval started by useEffect([dataChannelRef.current]):   *)
(* it looks at the channel the ref holds now and stops itself once that     *)
(* channel is open                                                          *)
MonitorTick(p) ==
    /\ checkInterval[p]
    /\ IF dataChannelRef[p] # 0 /\ readyState[dataChannelRef[p]][p] = "open"
       THEN /\ isChannelReady' = [isChannelReady EXCEPT ![p] = TRUE]
            /\ connectionStatus' = [connectionStatus EXCEPT ![p] = "Data Channel Connected!"]
            /\ checkInterval' = [checkInterval EXCEPT ![p] = FALSE]
            /\ UNCHANGED <<gameVars, connectionError, pcVars, chanVars, countVars, evalVars>>
       ELSE UNCHANGED vars

----------------------------------------------------------------------------
(* User actions of the game *)

(* variant: any existing channel counts as usable *)
channelOpen_AnyState(p) == dataChannelRef[p] # 0

(* dataChannelRef.current?.readyState === "open" *)
channelOpen(p) == dataChannelRef[p] # 0 /\ readyState[dataChannelRef[p]][p] = "open"

(* dataChannelRef.current.send(message) *)
send(p, message) ==
    [inFlight EXCEPT ![dataChannelRef[p]][Other(p)] = Append(@, message)]

(* variant: the early return does not look at gameResult *)
moveRejected_NoResult(p, index) ==
    ~isMyTurn[p] \/ board[p][index] # ""

(* the early return of makeMove *)
moveRejected(p, index) ==
    ~isMyTurn[p] \/ board[p][index] # "" \/ gameResult[p] # NULL

(* variant: the new board is not a copy of the current one *)
movedBoard_FromEmpty(p, index) == [EmptyBoard EXCEPT ![index] = currentPlayer[p]]

(* const newBoard = [...board]; newBoard[index] = currentPlayer *)
movedBoard(p, index) == [board[p] EXCEPT ![index] = currentPlayer[p]]

(* makeMove(index): a click on a cell button of the rendered board *)
MakeMove(p, index) ==
    /\ isChannelReady[p]
    /\ IF moveRejected(p, index)
       THEN UNCHANGED vars
       ELSE LET newBoard == movedBoard(p, index) IN
            /\ MovesLeft
            /\ numMoves' = numMoves + 1
            /\ board' = [board EXCEPT ![p] = newBoard]
            /\ isMyTurn' = [isMyTurn EXCEPT ![p] = FALSE]
            /\ gameResult' = [gameResult EXCEPT ![p] = effectResult(newBoard, @)]
            /\ scores' = [scores EXCEPT ![p] = effectScores(newBoard, @)]
            /\ IF channelOpen(p)
               THEN /\ inFlight' = send(p, [type |-> "move", board |-> newBoard])
                    /\ UNCHANGED connectionError
               ELSE /\ connectionError' = [connectionError EXCEPT ![p] = "Connection lost. Try restarting the game."]
                    /\ UNCHANGED inFlight
            /\ UNCHANGED <<currentPlayer, isChannelReady, connectionStatus, pcVars,
                           dataChannelRef, readyState, handlerPlayer, openFired,
                           numChannels, numResets, numDrops, numPastes, explore, evalVars,
                   checkInterval>>

(* resetGame: a click on "Play Again", rendered while a result is shown *)
ResetGame(p) ==
    /\ isChannelReady[p]
    /\ gameResult[p] # NULL
    /\ ResetsLeft
    /\ numResets' = numResets + 1
    /\ board' = [board EXCEPT ![p] = EmptyBoard]
    /\ gameResult' = [gameResult EXCEPT ![p] = effectResult(EmptyBoard, NULL)]
    /\ scores' = [scores EXCEPT ![p] = effectScores(EmptyBoard, @)]
    /\ isMyTurn' = [isMyTurn EXCEPT ![p] = (currentPlayer[p] = "X")]
    /\ IF channelOpen(p)
       THEN /\ inFlight' = send(p, [type |-> "reset", board |-> EmptyBoard])
            /\ UNCHANGED connectionError
       ELSE /\ connectionError' = [connectionError EXCEPT ![p] = "Connection lost. Cannot reset the game."]
            /\ UNCHANGED inFlight
    /\ UNCHANGED <<currentPlayer, isChannelReady, connectionStatus, pcVars,
                   dataChannelRef, readyState, handlerPlayer, openFired,
                   numChannels, numDrops, numPastes, numMoves, explore, evalVars,
                   checkInterval>>

(* variant: every peer recreates the channel *)
retryRecreates_AnyPeer(p) == TRUE

(* if (currentPlayer === "X") of retryConnection *)
retryRecreates(p) == currentPlayer[p] = "X"

(* retryConnection: a click on "Retry Connection", rendered while the       *)
(* current channel is not open                                              *)
RetryConnection(p) ==
    /\ dataChannelRef[p] # 0
    /\ readyState[dataChannelRef[p]][p] # "open"
    /\ connectionError' = [connectionError EXCEPT ![p] = NULL]
    /\ IF retryRecreates(p)
       THEN /\ ChannelsLeft
            /\ LET old == dataChannelRef[p]
                   c == numChannels + 1
               IN  /\ numChannels' = c
                   /\ dataChannelRef' = [dataChannelRef EXCEPT ![p] = c]
                   /\ readyState' = [readyState EXCEPT
                        ![old][p] = IF @ = "connecting" THEN "closing" ELSE @,
                        ![c][p] = "connecting"]
                   /\ handlerPlayer' = [handlerPlayer EXCEPT ![c][p] = currentPlayer[p]]
            /\ checkInterval' = [checkInterval EXCEPT ![p] = MonitorExplored]
            /\ connectionStatus' = [connectionStatus EXCEPT ![p] = "Retrying data channel connection..."]
       ELSE /\ connectionStatus' = [connectionStatus EXCEPT ![p] = "Ask the other player to retry the connection"]
            /\ UNCHANGED <<numChannels, dataChannelRef, readyState, handlerPlayer, checkInterval>>
    /\ UNCHANGED <<gameVars, isChannelReady, pcVars, openFired, inFlight,
                   countVars, evalVars>>

----------------------------------------------------------------------------

Next ==
    \/ \E p \in Peers : CreateOffer(p)
    \/ \E p \in Peers, text \in PastedTexts : AcceptOffer(p, text) /\ UNCHANGED pastedText
    \/ \E p \in Peers, text \in PastedTexts : HandleAnswer(p, text) /\ UNCHANGED pastedText
    \/ \E p \in Peers, c \in Channels : OpenLocal(p, c)
    \/ \E p \in Peers, c \in Channels : OnDataChannel(p, c)
    \/ \E p \in Peers, c \in Channels : OpenRemote(p, c)
    \/ \E p \in Peers, c \in Channels : OnMessage(p, c)
    \/ \E p \in Peers, c \in Channels : OnClose(p, c)
    \/ \E c \in Channels : ChannelDrop(c)
    \/ \E p \in Peers, index \in ClickCells : MakeMove(p, index)
    \/ \E p \in Peers : ResetGame(p)
    \/ \E p \in Peers : RetryConnection(p)
    \/ \E p \in Peers : MonitorTick(p)

Spec == Init /\ [][Next]_vars

----------------------------------------------------------------------------
(* checkWinner applied to every board of 9 cells *)

AllBoards == [Cells -> {"", "X", "O"}]

InitEval ==
    /\ InitApp
    /\ explore = "play"
    /\ evalBoard \in AllBoards
    /\ evalOut = "pending"
    /\ pastedText = <<>>

Evaluate ==
    /\ evalOut = "pending"
    /\ evalOut' = checkWinner(evalBoard)
    /\ UNCHANGED <<gameVars, uiVars, pcVars, chanVars, countVars, evalBoard, pastedText,
                   checkInterval>>

NextEval == Evaluate

SpecEval == InitEval /\ [][NextEval]_vars

----------------------------------------------------------------------------
(* The negotiation alone, with the text typed into each prompt kept *)

Labels == {"Offer:", "Answer:"}

InitPaste ==
    /\ InitApp
    /\ explore = "paste"
    /\ evalBoard = EmptyBoard
    /\ evalOut = NULL
    /\ pastedText = <<>>

(* prompt("Enter offer:") answered with text *)
PasteOffer(p, text) == AcceptOffer(p, text) /\ pastedText' = text

(* prompt("Enter answer:") answered with text *)
PasteAnswer(p, text) == HandleAnswer(p, text) /\ pastedText' = text

NextPaste ==
    \/ \E p \in Peers : CreateOffer(p)
    \/ \E p \in Peers, text \in PastedTexts : PasteOffer(p, text)
    \/ \E p \in Peers, text \in PastedTexts : PasteAnswer(p, text)

SpecPaste == InitPaste /\ [][NextPaste]_vars


----------------------------------------------------------------------------
(* Properties *)

Count(b, mark) == Cardinality({i \in Cells : b[i] = mark})
HoldsTriple(b, mark) ==
    \E k \in 1..Len(winPatterns) : \A j \in 1..3 : b[winPatterns[k][j]] = mark
Full(b) == \A i \in Cells : b[i] # ""
RefOpen(p) == dataChannelRef[p] # 0 /\ readyState[dataChannelRef[p]][p] = "open"
SomethingInFlight == \E c \in Channels, p \in Peers : inFlight[c][p] # <<>>
MoveDelivered(p, c) == OnMessage(p, c) /\ Head(inFlight[c][p]).type = "move"
ResetDelivered(p, c) == OnMessage(p, c) /\ Head(inFlight[c][p]).type = "reset"

(* C1: while the channel is open on both peers and neither has a result,    *)
(* the turn flags are never both true, and are both false only while a      *)
(* message is in flight.                                                    *)
C1_OneTurnOwner ==
    (RefOpen(p1) /\ RefOpen(p2) /\ gameResult[p1] = NULL /\ gameResult[p2] = NULL)
        => /\ ~(isMyTurn[p1] /\ isMyTurn[p2])
           /\ (~isMyTurn[p1] /\ ~isMyTurn[p2]) => SomethingInFlight

(* C2: processing a reset, by resetGame on the sender or by the reset       *)
(* message on the receiver, leaves the turn flag true on p1 (X) and false   *)
(* on p2 (O), with an empty board and no result.                            *)
C2_ResetTurn ==
    [][\A p \in Peers :
        (ResetGame(p) \/ \E c \in Channels : ResetDelivered(p, c))
            => /\ isMyTurn'[p] = (p = p1)
               /\ board'[p] = EmptyBoard
               /\ gameResult'[p] = NULL]_vars

(* C3: a peer's counters change exactly when its result goes from none to   *)
(* a terminal result, and then the matching counter goes up by one.         *)
C3_ScoreOncePerResult ==
    [][\A p \in Peers :
        IF gameResult[p] = NULL /\ gameResult'[p] # NULL
        THEN scores'[p] =
                IF gameResult'[p] = "Game ended in a draw!"
                THEN [scores[p] EXCEPT !.draws = @ + 1]
                ELSE IF gameResult'[p] = "Player X wins!"
                THEN [scores[p] EXCEPT !.X = @ + 1]
                ELSE [scores[p] EXCEPT !.O = @ + 1]
        ELSE scores'[p] = scores[p]]_vars

(* C4: makeMove(index) changes nothing when it is not the local turn, or    *)
(* the cell is filled, or a result exists: a makeMove step that changes     *)
(* the state (it counts an accepted move) starts with the local turn, an    *)
(* empty target cell and no result, and places the local mark.              *)
C4_MoveRejection ==
    [][numMoves' # numMoves =>
        \A p \in Peers, index \in Cells :
            MakeMove(p, index)
                => /\ isMyTurn[p]
                   /\ board[p][index] = ""
                   /\ gameResult[p] = NULL
                   /\ board'[p][index] = currentPlayer[p]]_vars

(* reached: on one rendered board only the result forbids a click on some   *)
(* cell, on the other only the missing turn does, and both boards have a    *)
(* filled cell                                                              *)
C4_Witness ==
    \E p \in Peers, index \in ClickCells :
        /\ isChannelReady[p] /\ isMyTurn[p] /\ board[p][index] = "" /\ gameResult[p] # NULL
        /\ isChannelReady[Other(p)] /\ ~isMyTurn[Other(p)]
        /\ board[Other(p)][index] = "" /\ gameResult[Other(p)] = NULL
        /\ \E filled \in ClickCells : board[p][filled] # "" /\ board[Other(p)][filled] # ""

(* C5: a received move leaves the receiver's board equal to the board of    *)
(* the message and the receiver's turn flag true.                           *)
C5_MoveOverwrites ==
    [][\A p \in Peers, c \in Channels :
        MoveDelivered(p, c)
            => /\ board'[p] = Head(inFlight[c][p]).board
               /\ isMyTurn'[p]]_vars

(* reached: p1 has placed a mark, and its board now shows a mark of O and   *)
(* none of X: the received board replaced p1's own                           *)
C5_Witness ==
    /\ Count(board[p1], "O") > 0
    /\ Count(board[p1], "X") = 0
    /\ Count(board[p2], "X") > 0
    /\ isMyTurn[p1]

(* C6 as claimed: draw iff full without a held triple, mark M iff M holds   *)
(* a triple, none otherwise.                                                *)
C6_AsClaimed ==
    evalOut # "pending" =>
        /\ evalOut = "draw" <=>
                (Full(evalBoard) /\ \A m \in Marks : ~HoldsTriple(evalBoard, m))
        /\ \A m \in Marks : evalOut = m <=> HoldsTriple(evalBoard, m)
        /\ evalOut = NULL <=>
                (~Full(evalBoard) /\ \A m \in Marks : ~HoldsTriple(evalBoard, m))

(* C6, amended: draw iff full without a held triple; none iff not full      *)
(* without a held triple; when a mark is returned it holds a triple, and a  *)
(* mark that holds a triple is returned unless the other mark holds one too *)
C6_CheckWinner ==
    evalOut # "pending" =>
        /\ evalOut = "draw" <=>
                (Full(evalBoard) /\ \A m \in Marks : ~HoldsTriple(evalBoard, m))
        /\ evalOut = NULL <=>
                (~Full(evalBoard) /\ \A m \in Marks : ~HoldsTriple(evalBoard, m))
        /\ \A m \in Marks : evalOut = m => HoldsTriple(evalBoard, m)
        /\ \A m \in Marks :
                (HoldsTriple(evalBoard, m) /\ \A o \in Marks \ {m} : ~HoldsTriple(evalBoard, o))
                    => evalOut = m
        /\ (\E m \in Marks : HoldsTriple(evalBoard, m)) => evalOut \in Marks

(* reached: a board on which both marks hold a triple has been evaluated *)
C6_Witness ==
    /\ evalOut \in Marks
    /\ HoldsTriple(evalBoard, "X")
    /\ HoldsTriple(evalBoard, "O")

(* C7: on each peer the stored result is the evaluation of the board.       *)
C7_ResultMatchesBoard ==
    \A p \in Peers :
        LET result == checkWinner(board[p])
        IN  gameResult[p] =
                IF result = NULL THEN NULL
                ELSE IF result = "draw" THEN "Game ended in a draw!"
                ELSE IF result = "X" THEN "Player X wins!" ELSE "Player O wins!"

(* C8: an accepted move is applied and gives the turn away; with the        *)
(* current channel open exactly one move message with the new board is      *)
(* sent and the error is untouched, otherwise the connection-lost error is  *)
(* set and nothing is sent.                                                 *)
C8_SendOrError ==
    [][\A p \in Peers, index \in Cells :
        (numMoves' # numMoves /\ MakeMove(p, index))
            => LET newBoard == [board[p] EXCEPT ![index] = currentPlayer[p]]
                   ch == dataChannelRef[p]
               IN  /\ board'[p] = newBoard
                   /\ ~isMyTurn'[p]
                   /\ IF ch # 0 /\ readyState[ch][p] = "open"
                      THEN /\ inFlight' = [inFlight EXCEPT ![ch][Other(p)] =
                                    Append(@, [type |-> "move", board |-> newBoard])]
                           /\ connectionError'[p] = connectionError[p]
                      ELSE /\ inFlight' = inFlight
                           /\ connectionError'[p] = "Connection lost. Try restarting the game."]_vars

(* reached: a move made while the current channel was still connecting *)
C8_Witness ==
    \E p \in Peers :
        /\ dataChannelRef[p] # 0
        /\ readyState[dataChannelRef[p]][p] = "connecting"
        /\ connectionError[p] = "Connection lost. Try restarting the game."
        /\ Count(board[p], currentPlayer[p]) > 0
        /\ ~isMyTurn[p]

(* C9: a failing acceptOffer or handleAnswer sets the error string and      *)
(* leaves the identity, the turn flag, the scores, the board, the result,   *)
(* the peer connection and the channels as they were.                       *)
C9_FailedNegotiation ==
    [][\A p \in Peers :
        (/\ numPastes' # numPastes
         /\ connectionError'[Other(p)] = connectionError[Other(p)]
         /\ \E text \in Texts :
                \/ ~offerAccepted(p, text) /\ AcceptOffer(p, text)
                \/ ~answerAccepted(p, text) /\ HandleAnswer(p, text))
            => /\ connectionError'[p] \in {"Error accepting offer", "Error handling answer"}
               /\ UNCHANGED <<board, currentPlayer, isMyTurn, gameResult, scores,
                              peerConnectionRef, localDesc, remoteDesc,
                              isChannelReady, connectionStatus, chanVars>>]_vars

(* reached: p2 failed a paste after it became O, p1 failed one holding the turn *)
C9_Witness ==
    /\ connectionError[p2] = "Error accepting offer"
    /\ currentPlayer[p2] = "O"
    /\ connectionError[p1] = "Error handling answer"
    /\ isMyTurn[p1]

(* C10: the open event marks the channel ready and sets the turn flag only  *)
(* on the peer whose identity is X; on O the flag stays as it was.          *)
C10_OpenTurn ==
    [][\A p \in Peers, c \in Channels :
        (OpenLocal(p, c) \/ OpenRemote(p, c))
            => /\ isChannelReady'[p]
               /\ isMyTurn'[p] = (IF currentPlayer[p] = "X" THEN TRUE ELSE isMyTurn[p])]_vars

C12_Retry ==
    [][\A p \in Peers :
        RetryConnection(p)
            => /\ connectionError'[p] = NULL
               /\ UNCHANGED <<board, currentPlayer, isMyTurn, gameResult, scores,
                              peerConnectionRef, localDesc, remoteDesc>>
               /\ IF currentPlayer[p] = "X"
                  THEN LET old == dataChannelRef[p]
                           new == dataChannelRef'[p]
                       IN  /\ new \notin {0, old}
                           /\ readyState[new][p] = "none"
                           /\ readyState'[new][p] = "connecting"
                           /\ readyState'[old][p] \in {"closing", "closed"}
                           /\ ordered(new)
                           /\ handlerPlayer'[new][p] # "none"
                           /\ connectionStatus'[p] = "Retrying data channel connection..."
                  ELSE /\ UNCHANGED <<dataChannelRef, readyState, handlerPlayer,
                                      openFired, inFlight, numChannels>>
                       /\ connectionStatus'[p] = "Ask the other player to retry the connection"]_vars

(* reached: after marks were placed, the initiator has replaced its channel *)
(* and the responder has pressed retry as well                              *)
C12_Witness ==
    /\ connectionStatus[p1] = "Retrying data channel connection..."
    /\ dataChannelRef[p1] > 1
    /\ readyState[1][p1] \in {"closing", "closed"}
    /\ connectionStatus[p2] = "Ask the other player to retry the connection"
    /\ currentPlayer[p2] = "O"
    /\ board[p1] # EmptyBoard
    /\ board[p2] # EmptyBoard

(* C13: handling the close event of a channel makes the ready flag false    *)
(* and the status "Data Channel Closed", and leaves the turn flag, the      *)
(* board, the result, the scores and the identity as they were.             *)
C13_CloseFrame ==
    [][\A p \in Peers, c \in Channels :
        OnClose(p, c)
            => /\ ~isChannelReady'[p]
               /\ connectionStatus'[p] = "Data Channel Closed"
               /\ UNCHANGED <<board, currentPlayer, isMyTurn, gameResult, scores>>]_vars

(* reached: a close was handled on a peer that holds the turn, after marks  *)
(* were placed                                                              *)
C13_Witness ==
    \E p \in Peers, c \in Channels :
        /\ readyState[c][p] = "closed"
        /\ connectionStatus[p] = "Data Channel Closed"
        /\ ~isChannelReady[p]
        /\ isMyTurn[p]
        /\ board[p] # EmptyBoard

(* C14: an accepted local move changes exactly one cell of the local board: *)
(* the clicked cell goes from empty to the mover's own mark, which is not   *)
(* the mark of the other peer, the other 8 cells keep their content, and    *)
(* the board of the other peer is not touched.                              *)
C14_SingleCellFill ==
    [][numMoves' # numMoves =>
        \A p \in Peers, index \in Cells :
            MakeMove(p, index)
                => /\ board[p][index] = ""
                   /\ board'[p][index] = currentPlayer[p]
                   /\ currentPlayer[p] \in Marks \ {currentPlayer[Other(p)]}
                   /\ \A i \in Cells \ {index} : board'[p][i] = board[p][i]
                   /\ board'[Other(p)] = board[Other(p)]]_vars

(* reached: a peer has just placed its mark on a board that holds marks of  *)
(* both players, and that board is on its way to the other peer             *)
C14_Witness ==
    \E p \in Peers :
        /\ ~isMyTurn[p]
        /\ Count(board[p], currentPlayer[p]) > 0
        /\ Count(board[p], currentPlayer[Other(p)]) > 0
        /\ channelOpen(p)
        /\ inFlight[dataChannelRef[p]][Other(p)] # <<>>
        /\ LET q == inFlight[dataChannelRef[p]][Other(p)]
           IN  q[Len(q)] = [type |-> "move", board |-> board[p]]

(* C15 as claimed: for acceptOffer and for handleAnswer, a text made of a   *)
(* label, "Offer:" or "Answer:", followed by a JSON description is parsed   *)
(* to that description and leaves the state the bare JSON text leaves.      *)
C15_AsClaimed ==
    [][numPastes' # numPastes =>
        \A p \in Peers, label \in Labels, json \in JsonTokens :
            /\ PasteOffer(p, <<label, json>>)
                    => /\ parsed(cleanText(<<label, json>>, "Offer:")) = json
                       /\ AcceptOffer(p, <<json>>)
            /\ PasteAnswer(p, <<label, json>>)
                    => /\ parsed(cleanText(<<label, json>>, "Answer:")) = json
                       /\ HandleAnswer(p, <<json>>)]_vars

(* C15, amended: each operation strips its own label only.  "Offer:"        *)
(* followed by a JSON description pasted into acceptOffer, and "Answer:"    *)
(* followed by one pasted into handleAnswer, is parsed from the first brace *)
(* on and leaves the state the bare JSON text leaves; a text that starts    *)
(* with the label of the other operation is parsed whole, and the operation *)
(* fails with its error.                                                    *)
C15_OwnLabel ==
    [][numPastes' # numPastes =>
        \A p \in Peers, json \in JsonTokens :
            /\ PasteOffer(p, <<"Offer:", json>>)
                    => /\ parsed(cleanText(<<"Offer:", json>>, "Offer:")) = json
                       /\ AcceptOffer(p, <<json>>)
            /\ PasteAnswer(p, <<"Answer:", json>>)
                    => /\ parsed(cleanText(<<"Answer:", json>>, "Answer:")) = json
                       /\ HandleAnswer(p, <<json>>)
            /\ PasteOffer(p, <<"Answer:", json>>)
                    => connectionError'[p] = "Error accepting offer"
            /\ PasteAnswer(p, <<"Offer:", json>>)
                    => connectionError'[p] = "Error handling answer"]_vars

(* reached: the answer typed with its label has completed the negotiation *)
C15_Witness ==
    /\ pastedText = <<"Answer:", "{answer}">>
    /\ remoteDesc[p1] = "answer"
    /\ connectionStatus[p1] = "Connected! Waiting for data channel..."
    /\ localDesc[p2] = "answer"
    /\ currentPlayer[p2] = "O"

(* C16: when the current channel is open on both peers and nothing is in    *)
(* flight in either direction, the two boards are equal in all 9 cells.     *)
C16_Convergence ==
    (RefOpen(p1) /\ RefOpen(p2) /\ ~SomethingInFlight) => board[p1] = board[p2]

(* C17: on every peer's board the number of X marks equals the number of O  *)
(* marks or exceeds it by exactly one.                                      *)
C17_Alternation ==
    \A p \in Peers :
        Count(board[p], "X") - Count(board[p], "O") \in {0, 1}

(* C18: the ready flag follows the current channel.  Once retryConnection   *)
(* has replaced the channel, the new channel is open and its open event     *)
(* handled, and nothing is pending on the peer (no close event of any       *)
(* channel, no message in flight to it, the monitor timer stopped), the     *)
(* ready flag is true.                                                      *)
C18_ReadyAfterRetry ==
    \A p \in Peers :
        (/\ dataChannelRef[p] > 1
         /\ readyState[dataChannelRef[p]][p] = "open"
         /\ openFired[dataChannelRef[p]][p]
         /\ ~checkInterval[p]
         /\ \A c \in Channels : readyState[c][p] # "closing" /\ inFlight[c][p] = <<>>)
            => isChannelReady[p]

====
